---------------------------- MODULE Spec2Model ----------------------------
(***************************************************************************)
(* The non-interactive proof that a Paillier modulus is well formed        *)
(* (src/proof/correct_key_ni.rs): CorrectKeyProof::proof and               *)
(* CorrectKeyProof::verify, the challenge derivation both of them carry,   *)
(* and a holder of a proof who changes its public fields before it is      *)
(* verified.                                                               *)
(*                                                                         *)
(* Numbers are scaled so that the arithmetic stays inside TLC's integers:  *)
(* the digest is DIGEST_SIZE bits wide (256 in the source) and the sieve   *)
(* P is the product of the primes below ALPHA (6379 in the source). The    *)
(* algorithms are the source's, parametric in both. M2, the number of      *)
(* challenges, and the salt keep the source's values.                      *)
(***************************************************************************)
EXTENDS Integers, Sequences, FiniteSets

VARIABLES
    pc,            \* "start" | "keyed" | "proved" | "forged" | "verified"
    dk,            \* the decryption key [p, q, n], or NoKey
    proof,         \* the CorrectKeyProof value [N, sigma_vec]
    orig,          \* sigma_vec as CorrectKeyProof::proof returned it
    prover_rho,    \* rho_vec as computed inside proof
    verifier_rho,  \* rho_vec as computed inside verify
    derived,       \* derived_rho_vec as computed inside verify
    gcd_test,      \* gcd_test as computed inside verify
    result,        \* "none" | "Ok" | "Err" | "Panic"
    edits          \* the changes made to the proof since it was produced

vars == <<pc, dk, proof, orig, prover_rho, verifier_rho, derived, gcd_test,
          result, edits>>

----------------------------------------------------------------------------
(* Bounds of the model and constants of the program *)

\* number of challenges
M2 == 11

\* width of one digest in bits; 256 in the source, scaled
DIGEST_SIZE == 7

\* the sieve covers the primes below ALPHA; 6379 in the source, scaled
ALPHA == 4

\* how many changes a holder makes to a proof before it is verified
MaxEdits == 1

\* the largest modulus of a proof built without a key
MaxForgeN == 16

\* the largest witness of a proof built without a key
MaxForgeW == 1

\* the primes key generation draws from
KeyPrimes == {3, 5, 7, 11, 13, 89, 97}

SALT_STRING == <<75, 90, 101, 110>>

NoKey == [p |-> 0, q |-> 0, n |-> 0]

----------------------------------------------------------------------------
(* Arbitrary-precision integer arithmetic *)

RECURSIVE Pow2(_)
Pow2(k) == IF k = 0 THEN 1 ELSE 2 * Pow2(k - 1)

RECURSIVE bit_length(_)
bit_length(n) == IF n = 0 THEN 0 ELSE 1 + bit_length(n \div 2)

Shl(x, k) == x * Pow2(k)

RECURSIVE modpow(_, _, _)
modpow(b, e, m) ==
    IF e = 0 THEN 1 % m
    ELSE LET h == modpow(b, e \div 2, m)
             s == (h * h) % m
         IN  IF e % 2 = 1 THEN (s * (b % m)) % m ELSE s

RECURSIVE gcd(_, _)
gcd(a, b) == IF b = 0 THEN a ELSE gcd(b, a % b)

\* BigInt::from(&[u8]): the bytes read as a big-endian number
RECURSIVE FromBytes(_)
FromBytes(bytes) ==
    IF bytes = <<>> THEN 0
    ELSE 256 * FromBytes(SubSeq(bytes, 1, Len(bytes) - 1)) + bytes[Len(bytes)]

IsPrime(n) == n > 1 /\ \A d \in 2..(n - 1) : n % d # 0

\* product of all primes < alpha
RECURSIVE Primorial(_)
Primorial(alpha) ==
    IF alpha <= 2 THEN 1
    ELSE (IF IsPrime(alpha - 1) THEN alpha - 1 ELSE 1) * Primorial(alpha - 1)

P == Primorial(ALPHA)

----------------------------------------------------------------------------
(* The digest primitive: a fixed function from a sequence of integers to   *)
(* one integer of DIGEST_SIZE bits                                         *)

RECURSIVE Absorb(_, _)
Absorb(h, values) ==
    IF values = <<>> THEN h
    ELSE LET x == Head(values)
         IN  Absorb((h * 37 + x + (x \div Pow2(DIGEST_SIZE)) + 11) % Pow2(DIGEST_SIZE),
                    Tail(values))

compute_digest(values) == Absorb(5, values)


salt_bn == FromBytes(SALT_STRING)

----------------------------------------------------------------------------
(* Key generation and root extraction *)

\* a Paillier key: two distinct primes of one size, with gcd(n, phi(n)) = 1
IsKey(p, q) ==
    /\ IsPrime(p) /\ IsPrime(q) /\ p < q /\ q < 2 * p
    /\ gcd(p * q, (p - 1) * (q - 1)) = 1

\* a value whose n-th power mod n is z, found with the factorisation
extract_nroot(key, z) ==
    CHOOSE r \in 0..(key.n - 1) : modpow(r, key.n, key.n) = z

----------------------------------------------------------------------------
(* CorrectKeyProof::proof *)

RECURSIVE proof_fold(_, _, _)
proof_fold(msklen_hash_vec, k, acc) ==
    IF k > Len(msklen_hash_vec) THEN acc
    ELSE proof_fold(msklen_hash_vec, k + 1,
                    acc + Shl(msklen_hash_vec[k], (k - 1) * DIGEST_SIZE))

\* proof_rho with a fault: block j shifted by j bits, not by j * DIGEST_SIZE
RECURSIVE proof_fold_shift_by_index(_, _, _)
proof_fold_shift_by_index(msklen_hash_vec, k, acc) ==
    IF k > Len(msklen_hash_vec) THEN acc
    ELSE proof_fold_shift_by_index(msklen_hash_vec, k + 1,
                                   acc + Shl(msklen_hash_vec[k], k - 1))

proof_rho_shift_by_index(n, i) ==
    LET msklen == bit_length(n) \div DIGEST_SIZE
        msklen_hash_vec ==
            [k \in 1..msklen |-> compute_digest(<<n, i, k - 1, salt_bn>>)]
    IN  proof_fold_shift_by_index(msklen_hash_vec, 1, 0) % n

\* the i-th element of rho_vec, i in 0..M2-1
proof_rho(n, i) ==
    LET key_length == bit_length(n)
        msklen == key_length \div DIGEST_SIZE
        msklen_hash_vec ==
            [k \in 1..msklen |-> compute_digest(<<n, i, k - 1, salt_bn>>)]
        rho == proof_fold(msklen_hash_vec, 1, 0)
    IN  rho % n

proof_rho_vec(n) == [k \in 1..M2 |-> proof_rho(n, k - 1)]

proof_sigma_vec(key, rho_vec) ==
    [k \in 1..Len(rho_vec) |-> extract_nroot(key, rho_vec[k])]

----------------------------------------------------------------------------
(* CorrectKeyProof::verify *)

RECURSIVE verify_fold(_, _, _)
verify_fold(msklen_hash_vec, k, acc) ==
    IF k > Len(msklen_hash_vec) THEN acc
    ELSE verify_fold(msklen_hash_vec, k + 1,
                     acc + Shl(msklen_hash_vec[k], (k - 1) * DIGEST_SIZE))

\* verify_rho with a fault: the indices i and j hashed in the other order
verify_rho_swapped_indices(N, i) ==
    LET msklen == bit_length(N) \div DIGEST_SIZE
        msklen_hash_vec ==
            [k \in 1..msklen |-> compute_digest(<<N, k - 1, i, salt_bn>>)]
    IN  verify_fold(msklen_hash_vec, 1, 0) % N

\* the i-th element of rho_vec, i in 0..M2-1
verify_rho(N, i) ==
    LET key_length == bit_length(N)
        msklen == key_length \div DIGEST_SIZE
        msklen_hash_vec ==
            [k \in 1..msklen |-> compute_digest(<<N, i, k - 1, salt_bn>>)]
        rho == verify_fold(msklen_hash_vec, 1, 0)
    IN  rho % N

verify_rho_vec(N) == [k \in 1..M2 |-> verify_rho(N, k - 1)]

\* derived_rho_vec with a fault: the exponent is N - 1, not N
derived_rho_vec_exponent_off(N, sigma_vec) ==
    [k \in 1..M2 |-> modpow(sigma_vec[k], N - 1, N)]

derived_rho_vec(N, sigma_vec) ==
    [k \in 1..M2 |-> modpow(sigma_vec[k], N, N)]

\* verify_accepts with a fault: || for &&
verify_accepts_either(rho_vec, derived_vec, g) ==
    rho_vec = derived_vec \/ g = 1

verify_accepts(rho_vec, derived_vec, g) ==
    rho_vec = derived_vec /\ g = 1

\* rho % &self.N divides by zero when N is zero
verify_panics_at_rho(pf) == pf.N = 0

\* self.sigma_vec[i] is out of bounds for some i in 0..M2 when the vector is short
verify_panics_at_index(pf) == Len(pf.sigma_vec) < M2

----------------------------------------------------------------------------
(* The state machine *)

Init ==
    /\ pc = "start"
    /\ dk = NoKey
    /\ proof = [N |-> 0, sigma_vec |-> <<>>]
    /\ orig = <<>>
    /\ prover_rho = <<>>
    /\ verifier_rho = <<>>
    /\ derived = <<>>
    /\ gcd_test = 0
    /\ result = "none"
    /\ edits = <<>>

\* Keypair { p, q } and its decryption key
Keypair ==
    /\ pc = "start"
    /\ \E p \in KeyPrimes, q \in KeyPrimes :
          /\ IsKey(p, q)
          /\ dk' = [p |-> p, q |-> q, n |-> p * q]
    /\ pc' = "keyed"
    /\ UNCHANGED <<proof, orig, prover_rho, verifier_rho, derived, gcd_test,
                   result, edits>>

\* CorrectKeyProof::proof(&dk)
Prove ==
    /\ pc = "keyed"
    /\ LET rho_vec == proof_rho_vec(dk.n)
           sigma_vec == proof_sigma_vec(dk, rho_vec)
       IN  /\ prover_rho' = rho_vec
           /\ proof' = [N |-> dk.n, sigma_vec |-> sigma_vec]
           /\ orig' = sigma_vec
    /\ pc' = "proved"
    /\ UNCHANGED <<dk, verifier_rho, derived, gcd_test, result, edits>>

Edit(op, i, pi) == [op |-> op, i |-> i, pi |-> pi]

CanEdit == pc = "proved" /\ Len(edits) < MaxEdits

Edited(sigma_vec, e) ==
    /\ proof' = [proof EXCEPT !.sigma_vec = sigma_vec]
    /\ edits' = Append(edits, e)
    /\ UNCHANGED <<pc, dk, orig, prover_rho, verifier_rho, derived, gcd_test,
                   result>>

\* witness i replaced by witness i + 1 mod N
IncrementWitness ==
    /\ CanEdit
    /\ \E k \in 1..Len(proof.sigma_vec) :
          Edited([proof.sigma_vec EXCEPT ![k] = (@ + 1) % proof.N],
                 Edit("inc", k, <<>>))

\* witness i replaced by witness i + N
AddModulusToWitness ==
    /\ CanEdit
    /\ \E k \in 1..Len(proof.sigma_vec) :
          Edited([proof.sigma_vec EXCEPT ![k] = @ + proof.N],
                 Edit("addN", k, <<>>))

Identity == [k \in 1..M2 |-> k]

Transposition(a, b) == [Identity EXCEPT ![a] = b, ![b] = a]

Rotation(r) == [k \in 1..M2 |-> ((k - 1 + r) % M2) + 1]

\* the permutations a holder applies: every transposition and every rotation
Permutations ==
    {Transposition(a, b) : a, b \in 1..M2} \cup {Rotation(r) : r \in 1..(M2 - 1)}

PermuteWitnesses ==
    /\ CanEdit
    /\ Len(proof.sigma_vec) = M2
    /\ \E pi \in Permutations \ {Identity} :
          Edited([k \in 1..M2 |-> proof.sigma_vec[pi[k]]], Edit("perm", 0, pi))

\* one more witness at the end
PushWitness ==
    /\ CanEdit
    /\ Edited(Append(proof.sigma_vec, 0), Edit("push", 0, <<>>))

\* the last witness dropped
PopWitness ==
    /\ CanEdit
    /\ proof.sigma_vec # <<>>
    /\ Edited(SubSeq(proof.sigma_vec, 1, Len(proof.sigma_vec) - 1),
              Edit("pop", 0, <<>>))

\* CorrectKeyProof { N, sigma_vec } built by hand, without a key
Forge ==
    /\ pc = "start"
    /\ \E N \in 0..MaxForgeN, w \in 0..MaxForgeW, len \in {M2 - 1, M2, M2 + 1} :
          proof' = [N |-> N, sigma_vec |-> [k \in 1..len |-> w]]
    /\ pc' = "forged"
    /\ UNCHANGED <<dk, orig, prover_rho, verifier_rho, derived, gcd_test,
                   result, edits>>

\* self.verify(), panicking at rho % &self.N
VerifyPanicsAtRho ==
    /\ pc \in {"proved", "forged"}
    /\ verify_panics_at_rho(proof)
    /\ result' = "Panic"
    /\ pc' = "verified"
    /\ UNCHANGED <<dk, proof, orig, prover_rho, verifier_rho, derived,
                   gcd_test, edits>>

\* self.verify(), panicking at self.sigma_vec[i]
VerifyPanicsAtIndex ==
    /\ pc \in {"proved", "forged"}
    /\ ~verify_panics_at_rho(proof)
    /\ verify_panics_at_index(proof)
    /\ verifier_rho' = verify_rho_vec(proof.N)
    /\ gcd_test' = gcd(P, proof.N)
    /\ result' = "Panic"
    /\ pc' = "verified"
    /\ UNCHANGED <<dk, proof, orig, prover_rho, derived, edits>>

\* self.verify(), returning Ok(()) or Err(CorrectKeyProofError)
Verify ==
    /\ pc \in {"proved", "forged"}
    /\ ~verify_panics_at_rho(proof)
    /\ ~verify_panics_at_index(proof)
    /\ LET rho_vec == verify_rho_vec(proof.N)
           g == gcd(P, proof.N)
           derived_vec == derived_rho_vec(proof.N, proof.sigma_vec)
       IN  /\ verifier_rho' = rho_vec
           /\ gcd_test' = g
           /\ derived' = derived_vec
           /\ result' = IF verify_accepts(rho_vec, derived_vec, g)
                        THEN "Ok" ELSE "Err"
    /\ pc' = "verified"
    /\ UNCHANGED <<dk, proof, orig, prover_rho, edits>>

Next ==
    \/ Keypair
    \/ Prove
    \/ IncrementWitness
    \/ AddModulusToWitness
    \/ PermuteWitnesses
    \/ PushWitness
    \/ PopWitness
    \/ Forge
    \/ VerifyPanicsAtRho
    \/ VerifyPanicsAtIndex
    \/ Verify

Spec == Init /\ [][Next]_vars

----------------------------------------------------------------------------
(* What the claims speak of, written from their statements *)

\* sum over j in [0, blocks) of digest(N, i, j, SALT) * 2^(j * DIGEST_SIZE)
RECURSIVE BlockSum(_, _, _)
BlockSum(N, i, blocks) ==
    IF blocks = 0 THEN 0
    ELSE BlockSum(N, i, blocks - 1)
         + compute_digest(<<N, i, blocks - 1, salt_bn>>)
           * Pow2((blocks - 1) * DIGEST_SIZE)

BlockCount(N) == bit_length(N) \div DIGEST_SIZE

Challenge(N, i) == BlockSum(N, i, BlockCount(N)) % N

\* every witness raised to the modulus is its challenge, and no small factor
AcceptCondition(pf) ==
    /\ pf.N >= 1
    /\ \A i \in 0..(M2 - 1) :
          /\ i + 1 \in DOMAIN pf.sigma_vec
          /\ modpow(pf.sigma_vec[i + 1], pf.N, pf.N) = Challenge(pf.N, i)
    /\ gcd(P, pf.N) = 1

HasSmallFactor(N) == \E d \in 2..(ALPHA - 1) : IsPrime(d) /\ N % d = 0

InDataModel(pf) ==
    /\ Len(pf.sigma_vec) = M2
    /\ \A k \in 1..Len(pf.sigma_vec) :
          pf.sigma_vec[k] >= 0 /\ pf.sigma_vec[k] < pf.N

FromKey == dk # NoKey

Verified == pc = "verified"

OnlyEdit(op) == Len(edits) = 1 /\ edits[1].op = op

----------------------------------------------------------------------------
(* C1 *)

\* C1: completeness. The proof that proof(dk) returns for a key of two
\* distinct primes with gcd(n, phi(n)) = 1 and n coprime to P, verified
\* as it was returned, is accepted.
C1_Completeness ==
    (Verified /\ FromKey /\ edits = <<>> /\ gcd(P, dk.n) = 1) => result = "Ok"

C1_Witness ==
    /\ Verified /\ FromKey /\ edits = <<>> /\ gcd(P, dk.n) = 1
    /\ BlockCount(dk.n) >= 2
    /\ \E k \in 1..M2 : proof.sigma_vec[k] > 1
    /\ result = "Ok"

----------------------------------------------------------------------------
(* C2 *)

\* C2: verify returns Ok exactly when every witness raised to the modulus,
\* modulo the modulus, is the challenge of its index and gcd(P, N) = 1, and
\* returns the rejection error in every other case.
C2_AcceptIffElseRejected ==
    Verified =>
        /\ result \in {"Ok", "Err"}
        /\ (result = "Ok") <=> AcceptCondition(proof)

\* where verify returns at all, its answer is the claim's condition
VerifyDecisionWhereItReturns ==
    (Verified /\ result # "Panic") =>
        ((result = "Ok") <=> AcceptCondition(proof))

----------------------------------------------------------------------------
(* C3 *)

\* C3: verify ends with a value for every proof, whatever its modulus and
\* however many witnesses it holds, and that value is the rejection error
\* when the number of witnesses is not M2.
C3_NeverPanicsMalformedRejected ==
    Verified =>
        /\ result \in {"Ok", "Err"}
        /\ (Len(proof.sigma_vec) # M2 => result = "Err")

----------------------------------------------------------------------------
(* C4 *)

\* C4: a proof whose modulus is positive and divisible by a prime factor
\* of P is answered with the rejection error, whatever its witnesses.
C4_SmallFactorRejected ==
    (Verified /\ proof.N >= 1 /\ HasSmallFactor(proof.N)) => result = "Err"

\* where verify returns at all, a modulus with a small factor is rejected
SmallFactorNeverAccepted ==
    (Verified /\ HasSmallFactor(proof.N)) => result # "Ok"

----------------------------------------------------------------------------
(* C5 *)

\* C5: a proof from proof(dk) in which one witness, at any index, was
\* replaced by that witness plus one modulo the modulus is rejected.
C5_IncrementedWitnessRejected ==
    (Verified /\ FromKey /\ OnlyEdit("inc")) => result = "Err"

C5_Witness ==
    /\ Verified /\ FromKey /\ OnlyEdit("inc") /\ edits[1].i = 4
    /\ gcd_test = 1
    /\ BlockCount(proof.N) >= 1
    /\ proof.sigma_vec[4] = (orig[4] + 1) % proof.N
    /\ result = "Err"

----------------------------------------------------------------------------
(* C6 *)

\* C6: a proof from proof(dk) whose witnesses were permuted by a
\* permutation other than the identity is rejected.
C6_PermutedWitnessesRejected ==
    (Verified /\ FromKey /\ OnlyEdit("perm")) => result = "Err"

\* a permutation that changes the sequence of witnesses is rejected
ReorderedWitnessesRejected ==
    (Verified /\ FromKey /\ OnlyEdit("perm") /\ proof.sigma_vec # orig)
        => result = "Err"

----------------------------------------------------------------------------
(* C7 *)

\* C7: for one modulus, the challenges verify derives are, element by
\* element, the M2 challenges proof derives.
C7_SameChallengesOnBothSides ==
    /\ (Verified /\ proof.N # 0) =>
          /\ Len(verifier_rho) = M2
          /\ verifier_rho = proof_rho_vec(proof.N)
    /\ (Verified /\ FromKey) =>
          /\ Len(prover_rho) = M2
          /\ verifier_rho = prover_rho

C7_Witness ==
    /\ Verified /\ FromKey
    /\ BlockCount(proof.N) >= 2
    /\ verifier_rho = prover_rho
    /\ \E k \in 1..M2 : verifier_rho[k] > Pow2(DIGEST_SIZE)

----------------------------------------------------------------------------
(* C8 *)

\* C8: a proof returned by proof(dk), and a proof verify accepts, holds
\* exactly M2 witnesses, each at least 0 and below the modulus.
C8_ProofInDataModel ==
    /\ (pc = "proved" /\ edits = <<>>) => InDataModel(proof)
    /\ (Verified /\ result = "Ok") => InDataModel(proof)

\* what proof(dk) returns is in the data model
ReturnedProofInDataModel ==
    (pc = "proved" /\ edits = <<>>) => InDataModel(proof)

----------------------------------------------------------------------------
(* C9 *)

\* C9: challenge i is the sum over the blocks j of digest(N, i, j, SALT)
\* times 2^(j * DIGEST_SIZE), reduced modulo N; it lies in [0, N), and
\* block j is the DIGEST_SIZE bits at offset j * DIGEST_SIZE of the sum.
C9_ChallengeAssembly ==
    /\ (FromKey /\ pc \in {"proved", "verified"}) =>
          /\ Len(prover_rho) = M2
          /\ \A k \in 1..M2 :
                /\ prover_rho[k] = Challenge(dk.n, k - 1)
                /\ prover_rho[k] >= 0 /\ prover_rho[k] < dk.n
    /\ (Verified /\ proof.N # 0) =>
          /\ Len(verifier_rho) = M2
          /\ \A k \in 1..M2 :
                /\ verifier_rho[k] = Challenge(proof.N, k - 1)
                /\ verifier_rho[k] >= 0 /\ verifier_rho[k] < proof.N
                /\ \A j \in 0..(BlockCount(proof.N) - 1) :
                      (BlockSum(proof.N, k - 1, BlockCount(proof.N))
                          \div Pow2(j * DIGEST_SIZE)) % Pow2(DIGEST_SIZE)
                      = compute_digest(<<proof.N, k - 1, j, salt_bn>>)

C9_Witness ==
    /\ Verified /\ FromKey
    /\ BlockCount(proof.N) = 2
    /\ \E k \in 1..M2 :
          /\ compute_digest(<<proof.N, k - 1, 1, salt_bn>>) > 1
          /\ compute_digest(<<proof.N, k - 1, 0, salt_bn>>) > 0
          /\ verifier_rho[k] = Challenge(proof.N, k - 1)
          /\ prover_rho[k] = verifier_rho[k]

----------------------------------------------------------------------------
(* C10 *)

\* C10: a proof of M2 witnesses whose modulus is positive and shorter than
\* DIGEST_SIZE bits is answered with the rejection error.
C10_ShortModulusRejected ==
    (/\ Verified
     /\ proof.N >= 1
     /\ Len(proof.sigma_vec) = M2
     /\ bit_length(proof.N) < DIGEST_SIZE) => result = "Err"

============================================================================
